---- MODULE Spec2Model ----
(***************************************************************************)
(* State-machine model of "Web App/precompute_data.py":                    *)
(*   - stage 2, the chunked name-resolution loop and resolve_names         *)
(*     (specification SpecNames);                                          *)
(*   - stages 4-5, TF-IDF vectorisation and the batched top-N cosine       *)
(*     similarity loop (specification Spec);                               *)
(*   - the same loop body run by a pool of workers, one batch at a time    *)
(*     each, as the engine's concurrency model allows (SpecWorkers).       *)
(*                                                                         *)
(* Numeric conventions.  A cosine similarity is an integer number of       *)
(* 1e-5 units (100000 is 1.0); an emitted score, round(score, 4), is an    *)
(* integer number of 1e-4 units.  Python arrays are functions over         *)
(* 0..n-1; Python lists built by the script are TLA+ sequences.            *)
(***************************************************************************)
EXTENDS Integers, Sequences, FiniteSets

VARIABLES
    \* ---- stages 4-5: similarity engine ----
    content_features,   \* df_movie["content_features"]: entry -> document
    num_movies,         \* len(df_movie)
    TOP_N_SIMILAR,      \* neighbours stored per movie (50 in the script)
    BATCH_SIZE,         \* rows per similarity block (500 in the script)
    tfidf_matrix,       \* the term matrix, read-only once built
    todo,               \* values the range(0, num_movies, BATCH_SIZE) iterator still yields
    batch_start,
    batch_end,
    batch_sim,          \* dense block: local row -> similarity row
    local_i,
    top_indices,        \* the candidates of the row at hand, then its neighbours
    similarity_data,    \* the table, one slot per movie, None until assigned
    writes,             \* history: how many times each slot was assigned
    output,             \* output["similarity"] as dumped to movie_data.json
    pc,
    err,
    \* ---- stage 2: name resolution ----
    df_movie,           \* per movie, the "directors" and "writers" cells
    names_file,         \* rows <<nconst, primaryName>> of name.basics.tsv, in file order
    chunksize,
    needed_ids,
    name_lookup,
    chunk_pos,          \* rows of the file the chunk iterator has handed out
    resolved,           \* per movie, directors_resolved and writers_resolved
    npc,
    \* ---- the worker pool ----
    workers,            \* worker -> its own loop state and similarity block
    interleaved         \* history: a row was stored ahead of a batch still in progress

simVars == <<content_features, num_movies, TOP_N_SIMILAR, BATCH_SIZE,
             tfidf_matrix, todo, batch_start, batch_end, batch_sim, local_i,
             top_indices,
             similarity_data, writes, output, pc, err>>
nameVars == <<df_movie, names_file, chunksize, needed_ids, name_lookup,
              chunk_pos, resolved, npc>>
workerVars == <<workers, interleaved>>
vars == <<simVars, nameVars, workerVars>>

\* ---- bounds of the model ---------------------------------------------------
MaxMovies == 3      \* corpus sizes 1..MaxMovies; batch sizes 1..num_movies+1
MaxTopN == 2        \* TOP_N_SIMILAR in 1..MaxTopN
MaxDf == 1          \* movies of the name-resolution stage
MaxFileRows == 3    \* rows of name.basics.tsv
MaxChunk == 2       \* chunksize in 1..MaxChunk

Min(a, b) == IF a < b THEN a ELSE b

Range(s) == {s[k] : k \in DOMAIN s}

\* ---- documents and their cosine similarity ---------------------------------
\* Four document directions: the empty document (all-zero TF-IDF row) and three
\* non-negative unit vectors a = (1,0,0), c = (0.6,0.8,0),
\* d = (0.60004, 0.79992, 0.00894).
Docs == {"empty", "a", "c", "d"}

\* cosine_similarity of two rows, in 1e-5 units.  sklearn normalises a zero
\* row by 1 instead of its norm, so an empty document scores 0 against
\* everything, itself included, without a division error.
Cosine(x, y) ==
    IF x = "empty" \/ y = "empty" THEN 0
    ELSE IF x = y THEN 100000
    ELSE IF {x, y} = {"a", "c"} THEN 60000
    ELSE IF {x, y} = {"a", "d"} THEN 60004
    ELSE 99996

\* cosine_similarity(X[lo:hi], X): local row -> (entry -> score).  A slice
\* stops at the end of the matrix.
cosine_similarity(X, lo, hi) ==
    [l \in 0..(Min(hi, Cardinality(DOMAIN X)) - lo - 1) |->
        [j \in DOMAIN X |-> Cosine(X[lo + l], X[j])]]

\* round(float(score), 4): 1e-5 units to 1e-4 units (no score of the model
\* ends in the digit 5, so the half-way case does not arise).
Round4(s) == (s + 5) \div 10

\* ---- numpy selection and sorting -------------------------------------------
\* numpy leaves the relative order of equal elements unspecified in
\* argpartition and in argsort (kind="quicksort"): each is modelled as the set
\* of the arrays its contract allows, and a step takes any one of them.

\* the sequences of m different elements of S
RECURSIVE Arrangements(_, _)
Arrangements(S, m) ==
    IF m = 0 THEN {<<>>}
    ELSE UNION {{<<x>> \o t : t \in Arrangements(S \ {x}, m - 1)} : x \in S}

\* the permutations of the indices 0..n-1 of an array of length n, and of the
\* positions 1..n of a list of length n
IndexPermutations == [n \in 0..MaxMovies |-> Arrangements(0..(n - 1), n)]
PositionPermutations == [n \in 0..MaxMovies |-> Arrangements(1..n, n)]

\* np.argpartition raises ValueError unless -n <= kth < n
KthInBounds(n, kth) == -n <= kth /\ kth < n

\* a negative kth counts from the end
KthIndex(n, kth) == IF kth < 0 THEN kth + n ELSE kth

\* np.argpartition(scores, kth): the permutations of the indices with the kth
\* element in its sorted place, no greater one before it and no smaller one
\* after it
ArgPartition(scores, kth) ==
    LET n == Cardinality(DOMAIN scores)
        q == KthIndex(n, kth) + 1
    IN {a \in IndexPermutations[n] :
           /\ \A k \in 1..(q - 1) : scores[a[k]] <= scores[a[q]]
           /\ \A k \in (q + 1)..n : scores[a[k]] >= scores[a[q]]}

\* slip: a[:m], the m lowest, for a[-m:]
LastMFromFront(a, m) == SubSeq(a, 1, m)

\* a[-m:]
LastM(a, m) == SubSeq(a, Len(a) - m + 1, Len(a))

\* a[:m]
FirstM(a, m) == SubSeq(a, 1, Min(m, Len(a)))

\* slip: the self index is not filtered out
RemoveSelfKeepsAll(a, global_i) == a

\* top_indices[top_indices != global_i]
RemoveSelf(a, global_i) ==
    LET keep(x) == x # global_i IN SelectSeq(a, keep)

\* np.argsort(scores[a]): the permutations of the positions of a that put the
\* scores in non-decreasing order
ArgSort(scores, a) ==
    {idx \in PositionPermutations[Len(a)] :
        \A k \in 1..(Len(a) - 1) : scores[a[idx[k]]] <= scores[a[idx[k + 1]]]}

\* slip: the [::-1] is forgotten
ReverseForgotten(a) == a

\* a[::-1]
Reverse(a) == [k \in 1..Len(a) |-> a[Len(a) + 1 - k]]

\* a[idx]: fancy indexing
Take(a, idx) == [k \in 1..Len(idx) |-> a[idx[k]]]

\* line 148: the values top_indices may take
TopCandidates(scores, topn) ==
    {LastM(a, topn + 1) : a \in ArgPartition(scores, -topn - 1)}

\* lines 148-149: the values top_indices may take once the entry is filtered out
OtherCandidates(scores, global_i, topn) ==
    {RemoveSelf(c, global_i) : c \in TopCandidates(scores, topn)}

\* line 151: the values top_indices may take from the filtered candidates
SortedTop(scores, others, topn) ==
    {FirstM(Take(others, Reverse(idx)), topn) : idx \in ArgSort(scores, others)}

\* line 152
Emit(scores, indices) ==
    [k \in 1..Len(indices) |-> <<indices[k], Round4(scores[indices[k]])>>]

\* lines 148-152: the neighbour lists the selection may give entry global_i
TopSimilar(scores, global_i, topn) ==
    UNION {{Emit(scores, t) : t \in SortedTop(scores, others, topn)} :
              others \in OtherCandidates(scores, global_i, topn)}

\* ---- initial states --------------------------------------------------------
\* [None] * num_movies: None is a list no selection can produce
None == << <<-1, -1>> >>

\* The corpora of the model: document "a" any number of times (identical
\* documents) and each other document of Docs at most once, at any positions.
Corpora(n) ==
    {f \in [0..(n - 1) -> Docs] :
        \A x \in Docs \ {"a"} : Cardinality({i \in 0..(n - 1) : f[i] = x}) <= 1}

NamesIdle ==
    /\ df_movie = <<>>
    /\ names_file = <<>>
    /\ chunksize = 1
    /\ needed_ids = {}
    /\ name_lookup = <<>>
    /\ chunk_pos = 0
    /\ resolved = <<>>
    /\ npc = "idle"

\* the state before stage 4, whoever runs the batches
InitEngine ==
    /\ \E n \in 1..MaxMovies, k \in 1..MaxTopN :
         \E b \in 1..(n + 1), f \in Corpora(n) :
             /\ num_movies = n
             /\ TOP_N_SIMILAR = k
             /\ BATCH_SIZE = b
             /\ content_features = f
    /\ top_indices = <<>>
    /\ tfidf_matrix = <<>>
    /\ todo = {}
    /\ batch_start = 0
    /\ batch_end = 0
    /\ batch_sim = <<>>
    /\ local_i = 0
    /\ similarity_data = <<>>
    /\ writes = <<>>
    /\ output = <<>>
    /\ pc = "vectorize"
    /\ err = "none"
    /\ NamesIdle

\* no worker pool: the script runs the batches itself
NoWorkers ==
    /\ workers = <<>>
    /\ interleaved = FALSE

Init == InitEngine /\ NoWorkers

\* ---- actions of the similarity engine --------------------------------------
\* lines 108-110 and 134-136.  TfidfVectorizer.fit_transform raises
\* ValueError("empty vocabulary") when no document holds a token.
Vectorize ==
    /\ pc = "vectorize"
    /\ IF \A i \in DOMAIN content_features : content_features[i] = "empty"
       THEN /\ pc' = "failed"
            /\ err' = "empty vocabulary"
            /\ UNCHANGED <<tfidf_matrix, todo, similarity_data, writes>>
       ELSE /\ tfidf_matrix' = content_features
            /\ todo' = {s \in 0..(num_movies - 1) : s % BATCH_SIZE = 0}
            /\ similarity_data' = [i \in 0..(num_movies - 1) |-> None]
            /\ writes' = [i \in 0..(num_movies - 1) |-> 0]
            /\ pc' = "batch"
            /\ UNCHANGED err
    /\ UNCHANGED <<content_features, num_movies, TOP_N_SIMILAR, BATCH_SIZE,
                   batch_start, batch_end, batch_sim, local_i, top_indices,
                   output>>
    /\ UNCHANGED <<nameVars, workerVars>>

\* slip: the end of the last batch is not cut at num_movies
BatchEndUnclamped(start, size, n) == start + size

\* line 140
BatchEndOf(start, size, n) == Min(start + size, n)

NextInRange(S) == CHOOSE s \in S : \A u \in S : s <= u

\* lines 139-142: the batch that starts at row s
EnterBatch(s) ==
    /\ batch_start' = s
    /\ batch_end' = BatchEndOf(s, BATCH_SIZE, num_movies)
    /\ batch_sim' = cosine_similarity(tfidf_matrix, s, BatchEndOf(s, BATCH_SIZE, num_movies))
    /\ local_i' = 0
    /\ todo' = todo \ {s}
    /\ pc' = "row"

\* for batch_start in range(0, num_movies, BATCH_SIZE): the next batch, or
\* the end of the loop
BatchBegin ==
    /\ pc = "batch"
    /\ IF todo = {}
       THEN /\ pc' = "write"
            /\ UNCHANGED <<todo, batch_start, batch_end, batch_sim, local_i>>
       ELSE EnterBatch(NextInRange(todo))
    /\ UNCHANGED <<content_features, num_movies, TOP_N_SIMILAR, BATCH_SIZE, top_indices,
                   tfidf_matrix, similarity_data, writes, output, err>>
    /\ UNCHANGED <<nameVars, workerVars>>

\* slip: the row's position in its batch is taken for its index
GlobalIndexLocalOnly(start, local) == local

\* slip: rows are keyed by the order they complete in
GlobalIndexByCompletion(start, local) ==
    Cardinality({i \in DOMAIN writes : writes[i] > 0})

\* line 145
GlobalIndex(start, local) == start + local

\* lines 144-149: an iteration of the inner loop up to the filtered candidates
RowSelect ==
    /\ pc = "row"
    /\ local_i < batch_end - batch_start
    /\ LET global_i == GlobalIndex(batch_start, local_i)
           scores == batch_sim[local_i]
       IN IF ~KthInBounds(Cardinality(DOMAIN scores), -TOP_N_SIMILAR - 1)
          THEN /\ pc' = "failed"
               /\ err' = "kth out of bounds"
               /\ UNCHANGED top_indices
          ELSE /\ top_indices' \in OtherCandidates(scores, global_i, TOP_N_SIMILAR)
               /\ pc' = "sort"
               /\ UNCHANGED err
    /\ UNCHANGED <<content_features, num_movies, TOP_N_SIMILAR, BATCH_SIZE,
                   tfidf_matrix, todo, batch_start, batch_end, batch_sim, local_i,
                   similarity_data, writes, output>>
    /\ UNCHANGED <<nameVars, workerVars>>

\* lines 151-153: the rest of the iteration
RowStore ==
    /\ pc = "sort"
    /\ LET global_i == GlobalIndex(batch_start, local_i)
           scores == batch_sim[local_i]
       IN \E sorted \in SortedTop(scores, top_indices, TOP_N_SIMILAR) :
            /\ top_indices' = sorted
            /\ similarity_data' =
                  [similarity_data EXCEPT ![global_i] = Emit(scores, sorted)]
            /\ writes' = [writes EXCEPT ![global_i] = @ + 1]
    /\ local_i' = local_i + 1
    /\ pc' = "row"
    /\ UNCHANGED <<content_features, num_movies, TOP_N_SIMILAR, BATCH_SIZE,
                   tfidf_matrix, todo, batch_start, batch_end, batch_sim, output,
                   err>>
    /\ UNCHANGED <<nameVars, workerVars>>

\* line 155: the inner loop is exhausted, back to the range iterator
BatchEnd ==
    /\ pc = "row"
    /\ local_i = batch_end - batch_start
    /\ pc' = "batch"
    /\ UNCHANGED <<content_features, num_movies, TOP_N_SIMILAR, BATCH_SIZE, top_indices,
                   tfidf_matrix, todo, batch_start, batch_end, batch_sim, local_i,
                   similarity_data, writes, output, err>>
    /\ UNCHANGED <<nameVars, workerVars>>

\* lines 157-164
WriteOutput ==
    /\ pc = "write"
    /\ output' = similarity_data
    /\ pc' = "done"
    /\ UNCHANGED <<content_features, num_movies, TOP_N_SIMILAR, BATCH_SIZE, top_indices,
                   tfidf_matrix, todo, batch_start, batch_end, batch_sim, local_i,
                   similarity_data, writes, err>>
    /\ UNCHANGED <<nameVars, workerVars>>

Next ==
    \/ Vectorize
    \/ BatchBegin
    \/ RowSelect
    \/ RowStore
    \/ BatchEnd
    \/ WriteOutput

Spec == Init /\ [][Next]_vars

\* ---- the batches run by a pool of workers ----------------------------------
\* The engine's concurrency model: the batches of range(0, num_movies,
\* BATCH_SIZE) are handed out in any order to independent workers.  Each worker
\* runs the loop body of lines 140-153 on its own batch_start, batch_end,
\* batch_sim, local_i and top_indices, reads the shared term matrix and
\* writes the shared table; it discards its block when its batch is done.
Workers == {"w1", "w2"}

IdleWorker ==
    [wpc |-> "idle", batch_start |-> 0, batch_end |-> 0, batch_sim |-> <<>>,
     local_i |-> 0, top_indices |-> <<>>]

InitWorkers ==
    /\ InitEngine
    /\ workers = [w \in Workers |-> IdleWorker]
    /\ interleaved = FALSE

\* a free worker takes any batch not yet handed out (lines 140-142 on its own state)
WorkerTake(w) ==
    /\ pc = "batch"
    /\ workers[w].wpc = "idle"
    /\ \E s \in todo :
         /\ workers' = [workers EXCEPT ![w] =
               [wpc |-> "row",
                batch_start |-> s,
                batch_end |-> BatchEndOf(s, BATCH_SIZE, num_movies),
                batch_sim |-> cosine_similarity(tfidf_matrix, s,
                                                BatchEndOf(s, BATCH_SIZE, num_movies)),
                local_i |-> 0,
                top_indices |-> <<>>]]
         /\ todo' = todo \ {s}
    /\ UNCHANGED <<content_features, num_movies, TOP_N_SIMILAR, BATCH_SIZE,
                   tfidf_matrix, batch_start, batch_end, batch_sim, local_i,
                   top_indices, similarity_data, writes, output, pc, err>>
    /\ UNCHANGED <<nameVars, interleaved>>

\* one iteration of the inner loop, lines 144-153, on the worker's own state:
\* it reads the worker's block and writes one slot of the shared table.  A
\* ValueError ends the run.  After the last row of its batch the worker drops
\* its block and is free again.
WorkerRow(w) ==
    /\ pc = "batch"
    /\ workers[w].wpc = "row"
    /\ LET me == workers[w]
           global_i == GlobalIndex(me.batch_start, me.local_i)
           scores == me.batch_sim[me.local_i]
       IN IF ~KthInBounds(Cardinality(DOMAIN scores), -TOP_N_SIMILAR - 1)
          THEN /\ pc' = "failed"
               /\ err' = "kth out of bounds"
               /\ UNCHANGED <<workers, similarity_data, writes>>
          ELSE /\ \E cand \in OtherCandidates(scores, global_i, TOP_N_SIMILAR) :
                  \E sorted \in SortedTop(scores, cand, TOP_N_SIMILAR) :
                    /\ similarity_data' =
                          [similarity_data EXCEPT ![global_i] = Emit(scores, sorted)]
                    /\ workers' = [workers EXCEPT ![w] =
                          IF me.local_i + 1 < me.batch_end - me.batch_start
                          THEN [me EXCEPT !.local_i = @ + 1, !.top_indices = sorted]
                          ELSE IdleWorker]
               /\ writes' = [writes EXCEPT ![global_i] = @ + 1]
               /\ UNCHANGED <<pc, err>>
    /\ interleaved' =
          (interleaved \/ \E v \in Workers \ {w} :
                             /\ workers[v].wpc # "idle"
                             /\ workers[v].batch_start < workers[w].batch_start)
    /\ UNCHANGED <<content_features, num_movies, TOP_N_SIMILAR, BATCH_SIZE,
                   tfidf_matrix, todo, batch_start, batch_end, batch_sim, local_i,
                   top_indices, output>>
    /\ UNCHANGED nameVars

\* every batch has been handed out and every worker is free
PoolJoin ==
    /\ pc = "batch"
    /\ todo = {}
    /\ \A w \in Workers : workers[w].wpc = "idle"
    /\ pc' = "write"
    /\ UNCHANGED <<content_features, num_movies, TOP_N_SIMILAR, BATCH_SIZE,
                   tfidf_matrix, todo, batch_start, batch_end, batch_sim, local_i,
                   top_indices, similarity_data, writes, output, err>>
    /\ UNCHANGED <<nameVars, workerVars>>

NextWorkers ==
    \/ Vectorize
    \/ \E w \in Workers : WorkerTake(w)
    \/ \E w \in Workers : WorkerRow(w)
    \/ PoolJoin
    \/ WriteOutput

SpecWorkers == InitWorkers /\ [][NextWorkers]_vars

\* ---- properties of the similarity engine -----------------------------------
\* cosine_similarity(tfidf_matrix, tfidf_matrix): the whole matrix as one block
FullSim == cosine_similarity(tfidf_matrix, 0, num_movies)

\* row i of the whole matrix
Row(i) == cosine_similarity(tfidf_matrix, i, i + 1)[0]

Entries == DOMAIN similarity_data

Stored(i) == similarity_data[i] # None

Indices(list) == {list[k][1] : k \in DOMAIN list}

Others(i) == Entries \ {i}

\* entry i is among the K+1 candidates of its row however numpy breaks ties
SelfSurelyCandidate(i) ==
    Cardinality({j \in Others(i) : Row(i)[j] >= Row(i)[i]}) <= TOP_N_SIMILAR

\* C1: for every N > 0 and K >= 1 the selection step never fails and every
\* stored neighbour list has length min(K, N-1).
C1_EveryListHasMinKNLength ==
    /\ err # "kth out of bounds"
    /\ \A i \in Entries :
         Stored(i) => Len(similarity_data[i]) = Min(TOP_N_SIMILAR, num_movies - 1)

\* C2: the neighbour list stored for entry i never contains i, and neither do
\* the candidates of its row once line 149 has filtered them, whether or not
\* the entry was among the K+1 selected.
C2_NeverContainsSelf ==
    /\ \A i \in Entries : i \notin Indices(similarity_data[i])
    /\ \A i \in DOMAIN output : i \notin Indices(output[i])
    /\ pc = "sort" => batch_start + local_i \notin Range(top_indices)

\* a row whose K+1 candidates did not include the entry itself, in a run that
\* has stored the list of a row whose candidates had to include it
C2_Witness ==
    /\ pc = "sort"
    /\ Len(top_indices) = TOP_N_SIMILAR + 1
    /\ \E i \in Entries : SelfSurelyCandidate(i) /\ Stored(i)

\* C3: within a neighbour list, of two neighbours with equal emitted score the
\* one with the smaller entry index comes first.
C3_TiesInAscendingIndexOrder ==
    \A i \in Entries :
        \A k, l \in DOMAIN similarity_data[i] :
            (k < l /\ similarity_data[i][k][2] = similarity_data[i][l][2])
                => similarity_data[i][k][1] < similarity_data[i][l][1]

\* C4: when N-1 >= K the list of entry i holds K different other entries and no
\* other entry left out scores strictly more than an entry of the list; the
\* same holds of the filtered candidates, with or without the entry among the
\* K+1 selected.
C4_ListHoldsTheHighestScores ==
    /\ \A i \in Entries :
        (Stored(i) /\ num_movies - 1 >= TOP_N_SIMILAR) =>
            /\ Len(similarity_data[i]) = TOP_N_SIMILAR
            /\ Cardinality(Indices(similarity_data[i])) = TOP_N_SIMILAR
            /\ Indices(similarity_data[i]) \subseteq Others(i)
            /\ LET scores == Row(i)
               IN \A j \in Others(i) \ Indices(similarity_data[i]) :
                    \A m \in Indices(similarity_data[i]) : scores[j] <= scores[m]
    /\ pc = "sort" =>
         LET i == batch_start + local_i
             scores == Row(i)
         IN /\ Len(top_indices) \in {TOP_N_SIMILAR, TOP_N_SIMILAR + 1}
            /\ \A j \in Others(i) \ Range(top_indices) :
                 \A m \in Range(top_indices) : scores[j] <= scores[m]

\* a row whose K+1 candidates did not include the entry itself, in a run where
\* a stored list left out an entry that scores strictly less than all of it
C4_Witness ==
    /\ pc = "sort"
    /\ Len(top_indices) = TOP_N_SIMILAR + 1
    /\ \E i \in Entries :
         /\ Stored(i)
         /\ \E j \in Others(i) \ Indices(similarity_data[i]) :
              \A m \in Indices(similarity_data[i]) : Row(i)[j] < Row(i)[m]

\* the table is one that the run taking the whole matrix as one block can write
UnbatchedTable(table) ==
    LET sim == FullSim
    IN /\ DOMAIN table = 0..(num_movies - 1)
       /\ \A i \in DOMAIN table : table[i] \in TopSimilar(sim[i], i, TOP_N_SIMILAR)

\* C5: whatever the batch size, the table written is a table of the run
\* with a single batch of all N rows.
C5_BatchSizeInvisible == pc = "done" => UnbatchedTable(output)

\* a finished run of several batches, the last one partial
C5_Witness ==
    /\ pc = "done"
    /\ 1 < BATCH_SIZE
    /\ BATCH_SIZE < num_movies
    /\ num_movies % BATCH_SIZE # 0

\* C6: scores are non-increasing along every neighbour list, as computed and
\* as emitted after rounding to 4 digits.
C6_ScoresNonIncreasing ==
    \A i \in Entries :
        Stored(i) =>
            LET scores == Row(i)
            IN \A k \in 1..(Len(similarity_data[i]) - 1) :
                 /\ similarity_data[i][k][2] >= similarity_data[i][k + 1][2]
                 /\ scores[similarity_data[i][k][1]]
                      >= scores[similarity_data[i][k + 1][1]]

\* a finished run with a list whose scores strictly decrease before rounding and
\* a list whose emitted scores strictly decrease
C6_Witness ==
    /\ pc = "done"
    /\ \E i \in Entries : \E k \in 1..(Len(output[i]) - 1) :
         /\ Row(i)[output[i][k][1]] > Row(i)[output[i][k + 1][1]]
         /\ output[i][k][2] = output[i][k + 1][2]
    /\ \E i \in Entries : \E k \in 1..(Len(output[i]) - 1) :
         output[i][k][2] > output[i][k + 1][2]

\* a table the script's own loop, batches in ascending order, can write: slot
\* start + local of every block holds a selection made on row local of the block
AscendingTable(table) ==
    /\ DOMAIN table = 0..(num_movies - 1)
    /\ \A start \in {s \in 0..(num_movies - 1) : s % BATCH_SIZE = 0} :
         LET block == cosine_similarity(tfidf_matrix, start,
                                        Min(start + BATCH_SIZE, num_movies))
         IN \A local \in DOMAIN block :
              table[start + local]
                  \in TopSimilar(block[local], start + local, TOP_N_SIMILAR)

\* the batches two workers hold at the same time share no row
BlocksDisjoint ==
    \A w, v \in Workers :
        (w # v /\ workers[w].wpc # "idle" /\ workers[v].wpc # "idle") =>
            \/ workers[w].batch_end <= workers[v].batch_start
            \/ workers[v].batch_end <= workers[w].batch_start

\* a step changes no slot but the one of the row its worker is at, within the
\* worker's own batch and not yet set, and never changes the term matrix
OwnSlotOnly ==
    /\ \A i \in Entries :
         similarity_data'[i] # similarity_data[i] =>
             /\ similarity_data[i] = None
             /\ \E w \in Workers :
                  /\ workers[w].wpc = "row"
                  /\ workers'[w] # workers[w]
                  /\ i = workers[w].batch_start + workers[w].local_i
                  /\ i < workers[w].batch_end
    /\ pc # "vectorize" => tfidf_matrix' = tfidf_matrix

\* C7: with the batches handed out in any order to independent workers whose
\* row steps interleave, every step writes only the slot of its worker's own
\* row and leaves the term matrix alone, no two workers hold the same row, and
\* the table written is complete and is one the ascending order writes.
C7_BatchOrderIrrelevant ==
    [][/\ OwnSlotOnly
       /\ BlocksDisjoint'
       /\ pc' = "done" =>
            /\ AscendingTable(output')
            /\ \A i \in Entries : output'[i] # None]_vars

\* a finished run in which a worker stored a row while another worker was
\* still in an earlier batch
C7_Witness == pc = "done" /\ interleaved

IsEmptyDoc(i) == content_features[i] = "empty"

\* C8: with one empty document among non-empty ones the run does not fail, the
\* empty entry's list holds only zero scores and not the entry itself, and
\* every other entry's list is produced.
C8_EmptyDocumentTolerated ==
    ((\E i \in DOMAIN content_features : IsEmptyDoc(i))
        /\ (\E i \in DOMAIN content_features : ~IsEmptyDoc(i)))
    => /\ pc # "failed"
       /\ pc = "done" =>
            \A i \in DOMAIN output :
                /\ output[i] # None
                /\ IsEmptyDoc(i) =>
                     /\ i \notin Indices(output[i])
                     /\ \A k \in DOMAIN output[i] : output[i][k][2] = 0

\* rows the loop has been through
RowsDone == {i \in DOMAIN writes : writes[i] > 0}

BatchInvariant ==
    /\ \A i \in DOMAIN writes : writes[i] <= 1
    /\ \A i \in Entries : Stored(i) <=> writes[i] = 1
    /\ pc \in {"row", "sort"} =>
         /\ 0 <= batch_start /\ batch_start < batch_end /\ batch_end <= num_movies
         /\ batch_end - batch_start <= Min(BATCH_SIZE, num_movies)
         /\ batch_start % BATCH_SIZE = 0
         /\ local_i <= batch_end - batch_start
         /\ DOMAIN batch_sim = 0..(batch_end - batch_start - 1)
         /\ RowsDone = 0..(batch_start + local_i - 1)
         /\ \A s \in todo : s >= batch_end
    /\ pc = "sort" => local_i < batch_end - batch_start
    /\ pc = "batch" =>
         RowsDone = 0..((IF todo = {} THEN num_movies ELSE NextInRange(todo)) - 1)
    /\ pc \in {"write", "done"} => RowsDone = 0..(num_movies - 1)
    /\ pc = "done" =>
         /\ DOMAIN output = 0..(num_movies - 1)
         /\ \A i \in DOMAIN output : output[i] # None

\* an upper bound of the steps the run has left
StepsLeft ==
    LET perBatch == 2 * BATCH_SIZE + 2
        rowsLeft == batch_end - batch_start - local_i
    IN CASE pc = "vectorize" -> 3 + perBatch * num_movies
         [] pc = "batch" -> 2 + perBatch * Cardinality(todo)
         [] pc = "row" -> 3 + perBatch * Cardinality(todo) + 2 * rowsLeft
         [] pc = "sort" -> 2 + perBatch * Cardinality(todo) + 2 * rowsLeft
         [] pc = "write" -> 1
         [] OTHER -> 0

\* a run that has not ended has a step to take
CanStep ==
    \/ pc \in {"vectorize", "batch", "write"}
    \/ /\ pc = "row"
       /\ local_i = batch_end - batch_start
    \/ /\ pc = "row"
       /\ local_i < batch_end - batch_start
       /\ \/ ~KthInBounds(num_movies, -TOP_N_SIMILAR - 1)
          \/ TopCandidates(batch_sim[local_i], TOP_N_SIMILAR) # {}
    \/ /\ pc = "sort"
       /\ SortedTop(batch_sim[local_i], top_indices, TOP_N_SIMILAR) # {}

\* C9: for every N > 0 and batch size B >= 1, B > N included, the batch loop
\* terminates; its batches are contiguous, disjoint, of at most min(B, N)
\* rows, within 0..N-1, and every slot is assigned exactly once, none being
\* None when the output is written.
C9_BatchesPartitionTheRows ==
    /\ BatchInvariant /\ CanStep
    /\ [][/\ BatchInvariant'
          /\ (pc \in {"done", "failed"} \/ CanStep)'
          /\ StepsLeft' < StepsLeft]_vars

\* a finished run whose batch size exceeded the corpus size
C9_Witness == pc = "done" /\ BATCH_SIZE > num_movies /\ num_movies > 1

\* ---- stage 2: name resolution ----------------------------------------------
Ids == {"nm1", "nm2"}

\* a "directors" or "writers" cell after str(val).split(",") and strip(); the
\* empty sequence is NaN (an empty field of the TSV)
Cells == {<<>>, <<"nm1">>, <<"nm2">>, <<"nm1", "nm2">>}

\* lines 45-46: read_csv(dtype=str) reads an empty or NA-like primaryName field
\* ('', 'NA', 'null', 'nan', ...) as the float NaN, not as a string
NaN == "<NaN>"

\* rows <<nconst, primaryName>> of name.basics.tsv; no name is spelt like an ID
NameRows == {<<"nm1", "Ann">>, <<"nm1", NaN>>, <<"nm2", "Bob">>, <<"nm2", "Rob">>}

SeqsUpTo(S, n) == UNION {[1..m -> S] : m \in 0..n}

SimIdle ==
    /\ content_features = <<>>
    /\ num_movies = 0
    /\ TOP_N_SIMILAR = 1
    /\ BATCH_SIZE = 1
    /\ top_indices = <<>>
    /\ tfidf_matrix = <<>>
    /\ todo = {}
    /\ batch_start = 0
    /\ batch_end = 0
    /\ batch_sim = <<>>
    /\ local_i = 0
    /\ similarity_data = <<>>
    /\ writes = <<>>
    /\ output = <<>>
    /\ pc = "idle"
    /\ err = "none"

InitNames ==
    /\ \E n \in 1..MaxDf :
         df_movie \in [1..n -> [directors : Cells, writers : Cells]]
    /\ names_file \in SeqsUpTo(NameRows, MaxFileRows)
    /\ chunksize \in 1..MaxChunk
    /\ needed_ids = {}
    /\ name_lookup = <<>>
    /\ chunk_pos = 0
    /\ resolved = <<>>
    /\ npc = "collect"
    /\ SimIdle
    /\ NoWorkers

\* lines 36-40
CollectIds ==
    /\ npc = "collect"
    /\ needed_ids' = UNION {Range(df_movie[m].directors) \cup Range(df_movie[m].writers) :
                              m \in DOMAIN df_movie}
    /\ npc' = "chunks"
    /\ UNCHANGED <<df_movie, names_file, chunksize, name_lookup, chunk_pos, resolved>>
    /\ UNCHANGED <<simVars, workerVars>>

\* slip: every row of the chunk is stored, needed or not
MaskKeepsAll(chunk, needed) == chunk

\* line 48: chunk[chunk["nconst"].isin(needed_ids)]
Mask(chunk, needed) ==
    LET keep(row) == row[1] \in needed IN SelectSeq(chunk, keep)

\* name_lookup[key] = value
Put(lookup, key, value) ==
    [x \in DOMAIN lookup \cup {key} |-> IF x = key THEN value ELSE lookup[x]]

\* lines 49-50
RECURSIVE StoreRows(_, _)
StoreRows(lookup, rows) ==
    IF rows = <<>> THEN lookup
    ELSE StoreRows(Put(lookup, Head(rows)[1], Head(rows)[2]), Tail(rows))

\* line 52: len(name_lookup) >= len(needed_ids)
FoundAll(lookup, needed) == Cardinality(DOMAIN lookup) >= Cardinality(needed)

\* lines 47-53: the loop body on the next chunk of the file
ChunkStep ==
    /\ npc = "chunks"
    /\ chunk_pos < Len(names_file)
    /\ LET chunk == SubSeq(names_file, chunk_pos + 1,
                           Min(chunk_pos + chunksize, Len(names_file)))
           lookup == StoreRows(name_lookup, Mask(chunk, needed_ids))
       IN /\ name_lookup' = lookup
          /\ chunk_pos' = chunk_pos + Len(chunk)
          /\ npc' = IF FoundAll(lookup, needed_ids) THEN "resolve" ELSE "chunks"
    /\ UNCHANGED <<df_movie, names_file, chunksize, needed_ids, resolved>>
    /\ UNCHANGED <<simVars, workerVars>>

\* line 47: the chunk iterator is exhausted
ChunksExhausted ==
    /\ npc = "chunks"
    /\ chunk_pos = Len(names_file)
    /\ npc' = "resolve"
    /\ UNCHANGED <<df_movie, names_file, chunksize, needed_ids, name_lookup,
                   chunk_pos, resolved>>
    /\ UNCHANGED <<simVars, workerVars>>

\* line 63: names = [name_lookup.get(nid, nid) for nid in ids]
Names(id_string) ==
    [k \in DOMAIN id_string |->
        IF id_string[k] \in DOMAIN name_lookup
        THEN name_lookup[id_string[k]]
        ELSE id_string[k]]

\* line 64: ", ".join(names) raises TypeError when an item is not a str
JoinRaises(names) == \E k \in DOMAIN names : names[k] = NaN

\* lines 58-64; "" is the empty sequence of names, and the joined string is
\* kept as the sequence of its names
resolve_names(id_string) ==
    IF id_string = <<>> THEN <<>> ELSE Names(id_string)

\* lines 58-64: the call raises
ResolveRaises(id_string) == id_string # <<>> /\ JoinRaises(Names(id_string))

\* line 67: df_movie["directors_resolved"] = df_movie["directors"].apply(resolve_names)
ResolveDirectors ==
    /\ npc = "resolve"
    /\ IF \E m \in DOMAIN df_movie : ResolveRaises(df_movie[m].directors)
       THEN /\ npc' = "failed"
            /\ UNCHANGED resolved
       ELSE /\ npc' = "resolve_writers"
            /\ resolved' = [m \in DOMAIN df_movie |->
                   [directors_resolved |-> resolve_names(df_movie[m].directors)]]
    /\ UNCHANGED <<df_movie, names_file, chunksize, needed_ids, name_lookup, chunk_pos>>
    /\ UNCHANGED <<simVars, workerVars>>

\* line 68: df_movie["writers_resolved"] = df_movie["writers"].apply(resolve_names)
ResolveWriters ==
    /\ npc = "resolve_writers"
    /\ IF \E m \in DOMAIN df_movie : ResolveRaises(df_movie[m].writers)
       THEN /\ npc' = "failed"
            /\ UNCHANGED resolved
       ELSE /\ npc' = "done"
            /\ resolved' = [m \in DOMAIN df_movie |->
                   [directors_resolved |-> resolved[m].directors_resolved,
                    writers_resolved |-> resolve_names(df_movie[m].writers)]]
    /\ UNCHANGED <<df_movie, names_file, chunksize, needed_ids, name_lookup, chunk_pos>>
    /\ UNCHANGED <<simVars, workerVars>>

NextNames ==
    \/ CollectIds
    \/ ChunkStep
    \/ ChunksExhausted
    \/ ResolveDirectors
    \/ ResolveWriters

SpecNames == InitNames /\ [][NextNames]_vars

\* ---- properties of the name resolution -------------------------------------
FileIds == {names_file[k][1] : k \in DOMAIN names_file}

LoopEnded == npc \in {"resolve", "resolve_writers", "done", "failed"}

\* C10: name_lookup's keys are needed IDs; once the chunk loop has ended,
\* early or not, every needed ID the file holds is a key of name_lookup, and
\* resolve_names leaves a raw ID only where the file does not hold it, both in
\* the names it looks up for any cell and in the columns a finished run stores.
C10_EarlyExitLosesNoName ==
    /\ DOMAIN name_lookup \subseteq needed_ids
    /\ LoopEnded =>
         /\ \A id \in needed_ids : id \in FileIds => id \in DOMAIN name_lookup
         /\ \A m \in DOMAIN df_movie :
              /\ \A k \in DOMAIN df_movie[m].directors :
                   Names(df_movie[m].directors)[k] = df_movie[m].directors[k]
                       => df_movie[m].directors[k] \notin FileIds
              /\ \A k \in DOMAIN df_movie[m].writers :
                   Names(df_movie[m].writers)[k] = df_movie[m].writers[k]
                       => df_movie[m].writers[k] \notin FileIds
    /\ npc = "done" =>
         \A m \in DOMAIN df_movie :
             /\ resolved[m].directors_resolved = Names(df_movie[m].directors)
             /\ resolved[m].writers_resolved = Names(df_movie[m].writers)
             /\ \A k \in DOMAIN df_movie[m].directors :
                  resolved[m].directors_resolved[k] = df_movie[m].directors[k]
                      => df_movie[m].directors[k] \notin FileIds
             /\ \A k \in DOMAIN df_movie[m].writers :
                  resolved[m].writers_resolved[k] = df_movie[m].writers[k]
                      => df_movie[m].writers[k] \notin FileIds

\* the loop broke out with rows of the file unread, two IDs being needed
C10_Witness ==
    /\ npc = "done"
    /\ chunk_pos < Len(names_file)
    /\ needed_ids = Ids
    /\ DOMAIN name_lookup = Ids

====
